---- MODULE Spec2Model ----
(***************************************************************************)
(* A model of the recipe box: the JSON-LD recipe locator and normalizer of *)
(* web_scraper.py, the ingredient-quantity parser, formatter and scaler of *)
(* app.py, and the request handlers of app.py that change the stored       *)
(* recipe list and meal plan.                                              *)
(*                                                                         *)
(* Python strings that the code inspects character by character are        *)
(* sequences of one-character strings.  Dictionary keys, which the code    *)
(* only looks up, are plain strings.  Floats are exact rationals <<n, d>>  *)
(* with d > 0: every value that occurs has a denominator far too small for *)
(* binary rounding to move value*8 across a rounding boundary.             *)
(***************************************************************************)
EXTENDS Integers, Sequences, FiniteSets, TLC

VARIABLES pc, doc, found, page, outcome, line, parsed, value, formatted,
          factor, scaled, recipes, plan, assigned, serial, reqs, base

vars == <<pc, doc, found, page, outcome, line, parsed, value, formatted,
          factor, scaled, recipes, plan, assigned, serial, reqs, base>>

\* the stored documents, the requests in progress and what the model remembers
\* about them
storeVars == <<recipes, plan, assigned, serial, reqs, base>>

(***************************************************************************)
(* Decoded JSON (what json.loads returns).  Every value is a record of the *)
(* same shape: t is the Python type, s the text of a str, n/d the value of *)
(* an int, float or bool, kids the <<key, value>> pairs of a dict in       *)
(* document order, or the items of a list under the key "".                *)
(***************************************************************************)
J(t, s, n, d, kids) == [t |-> t, s |-> s, n |-> n, d |-> d, kids |-> kids]

JNull == J("null", <<>>, 0, 1, <<>>)
JBool(b) == J("bool", <<>>, IF b THEN 1 ELSE 0, 1, <<>>)
JInt(n) == J("int", <<>>, n, 1, <<>>)
JFloat(n, d) == J("float", <<>>, n, d, <<>>)
\* json.loads("1e999") and json.loads("Infinity") give float('inf');
\* json.loads("NaN") gives float('nan').
JInf == J("inf", <<>>, 0, 1, <<>>)
JNaN == J("nan", <<>>, 0, 1, <<>>)
JStr(s) == J("str", s, 0, 1, <<>>)
JList(items) == J("list", <<>>, 0, 1, [i \in 1..Len(items) |-> <<"", items[i]>>])
JDict(pairs) == J("dict", <<>>, 0, 1, pairs)

\* key in data
HasKey(data, key) == \E i \in 1..Len(data.kids) : data.kids[i][1] = key

KeyIndex(data, key) == CHOOSE i \in 1..Len(data.kids) : data.kids[i][1] = key

\* data.get(key): None when the key is absent
Get(data, key) == IF HasKey(data, key) THEN data.kids[KeyIndex(data, key)][2] ELSE JNull

\* data.get(key, default)
GetDefault(data, key, default) ==
    IF HasKey(data, key) THEN data.kids[KeyIndex(data, key)][2] ELSE default

\* bool(v)
Truthy(v) ==
    CASE v.t = "null" -> FALSE
      [] v.t \in {"bool", "int", "float"} -> v.n # 0
      [] v.t \in {"inf", "nan"} -> TRUE
      [] v.t = "str" -> v.s # <<>>
      [] OTHER -> v.kids # <<>>

\* str.lower(), on the letters of the model's alphabet
LowerChar(c) ==
    CASE c = "R" -> "r" [] c = "E" -> "e" [] c = "C" -> "c" [] c = "I" -> "i"
      [] c = "P" -> "p" [] c = "T" -> "t" [] c = "H" -> "h" [] c = "N" -> "n"
      [] c = "G" -> "g" [] c = "F" -> "f" [] c = "A" -> "a" [] c = "S" -> "s"
      [] OTHER -> c

Lower(s) == [i \in 1..Len(s) |-> LowerChar(s[i])]

RecipeLower == <<"r", "e", "c", "i", "p", "e">>

Digits == <<"0", "1", "2", "3", "4", "5", "6", "7", "8", "9">>

RECURSIVE IntToStr(_)
\* str(n) of an int
IntToStr(n) ==
    IF n < 0 THEN <<"-">> \o IntToStr(-n)
    ELSE IF n < 10 THEN <<Digits[n + 1]>>
    ELSE IntToStr(n \div 10) \o <<Digits[(n % 10) + 1]>>

\* str(t) of an element of an @type list.  The text of a float, list or dict is
\* cut to its first character: it starts with a digit, "[" or "{" and so is
\* never "recipe" in any letter case.
PyStr(v) ==
    CASE v.t = "str" -> v.s
      [] v.t = "null" -> <<"N", "o", "n", "e">>
      [] v.t = "bool" -> IF v.n = 1 THEN <<"T", "r", "u", "e">>
                         ELSE <<"F", "a", "l", "s", "e">>
      [] v.t = "int" -> IntToStr(v.n)
      [] v.t = "float" -> IntToStr(v.n \div v.d) \o <<".">>
      [] v.t = "inf" -> <<"i", "n", "f">>
      [] v.t = "nan" -> <<"n", "a", "n">>
      [] v.t = "list" -> <<"[">>
      [] OTHER -> <<"{">>

IsRecipeNodeAnyType(node) == node.t = "dict" /\ HasKey(node, "@type")

\* _is_recipe_node
IsRecipeNode(node) ==
    IF node.t # "dict" THEN FALSE
    ELSE LET type_value == Get(node, "@type") IN
         IF type_value.t = "list"
         THEN \E i \in 1..Len(type_value.kids) :
                  Lower(PyStr(type_value.kids[i][2])) = RecipeLower
         ELSE IF type_value.t = "str"
         THEN Lower(type_value.s) = RecipeLower
         ELSE FALSE

(***************************************************************************)
(* The locator.  Python returns the node object itself; the model returns  *)
(* the node together with its place in the value searched (the kids index  *)
(* taken at every descent), which is what tells two equal nodes apart.     *)
(***************************************************************************)
NotFound == [hit |-> FALSE, node |-> JNull, path |-> <<>>]

Hit(node, path) == [hit |-> TRUE, node |-> node, path |-> path]

\* the result of a recursive call made on kid i, seen from the caller
Under(i, r) == [r EXCEPT !.path = <<i>> \o r.path]

\* `if found:` on the result of a recursive call
IsFound(r) == r.hit /\ Truthy(r.node)

PriorityKeysReordered == <<"mainEntity", "@graph", "graph">>

\* for key in ("@graph", "graph", "mainEntity")
PriorityKeys == <<"@graph", "graph", "mainEntity">>

DefaultMaxDepthShort == 5 - 1

\* max_depth=5
DefaultMaxDepth == 5

RECURSIVE FindRecipeInJson(_, _)
RECURSIVE ProbeKeys(_, _, _)
RECURSIVE ScanValues(_, _, _)
RECURSIVE ScanItems(_, _, _)

\* the probe that gives up after the first key present
ProbeKeysFirstPresent(data, keys, max_depth) ==
    IF keys = <<>> THEN NotFound
    ELSE IF HasKey(data, Head(keys))
    THEN LET i == KeyIndex(data, Head(keys))
             r == FindRecipeInJson(data.kids[i][2], max_depth - 1)
         IN  IF IsFound(r) THEN Under(i, r) ELSE NotFound
    ELSE ProbeKeys(data, Tail(keys), max_depth)

\* for key in (...): if key in data: found = ...(data[key], max_depth - 1)
ProbeKeys(data, keys, max_depth) ==
    IF keys = <<>> THEN NotFound
    ELSE IF HasKey(data, Head(keys))
    THEN LET i == KeyIndex(data, Head(keys))
             r == FindRecipeInJson(data.kids[i][2], max_depth - 1)
         IN  IF IsFound(r) THEN Under(i, r)
             ELSE ProbeKeys(data, Tail(keys), max_depth)
    ELSE ProbeKeys(data, Tail(keys), max_depth)

\* for value in data.values(): if isinstance(value, (dict, list)): ...
ScanValues(data, i, max_depth) ==
    IF i > Len(data.kids) THEN NotFound
    ELSE IF data.kids[i][2].t \in {"dict", "list"}
    THEN LET r == FindRecipeInJson(data.kids[i][2], max_depth - 1)
         IN  IF IsFound(r) THEN Under(i, r)
             ELSE ScanValues(data, i + 1, max_depth)
    ELSE ScanValues(data, i + 1, max_depth)

\* the scan of a list that hands its own budget on
ScanItemsSameBudget(data, i, max_depth) ==
    IF i > Len(data.kids) THEN NotFound
    ELSE LET r == FindRecipeInJson(data.kids[i][2], max_depth)
         IN  IF IsFound(r) THEN Under(i, r)
             ELSE ScanItems(data, i + 1, max_depth)

\* for item in data: found = ...(item, max_depth - 1)
ScanItems(data, i, max_depth) ==
    IF i > Len(data.kids) THEN NotFound
    ELSE LET r == FindRecipeInJson(data.kids[i][2], max_depth - 1)
         IN  IF IsFound(r) THEN Under(i, r)
             ELSE ScanItems(data, i + 1, max_depth)

\* _find_recipe_in_json
FindRecipeInJson(data, max_depth) ==
    IF max_depth <= 0 \/ data.t = "null" THEN NotFound
    ELSE IF data.t = "dict"
    THEN IF IsRecipeNode(data) THEN Hit(data, <<>>)
         ELSE LET r == ProbeKeys(data, PriorityKeys, max_depth)
              IN  IF r.hit THEN r ELSE ScanValues(data, 1, max_depth)
    ELSE IF data.t = "list" THEN ScanItems(data, 1, max_depth)
    ELSE NotFound

(***************************************************************************)
(* The field normalizer of scrape_recipe_data.  A step that can raise      *)
(* gives [raised, val]; the first exception ends the call.                 *)
(***************************************************************************)
Ok(v) == [raised |-> FALSE, val |-> v]
Raised == [raised |-> TRUE, val |-> JNull]

\* a or b
Or(a, b) == IF Truthy(a) THEN a ELSE b

NoTitleFound == JStr(<<"N", "o", " ", "T", "i", "t", "l", "e", " ", "F", "o", "u", "n", "d">>)

\* title = recipe_data.get("name", "No Title Found")
Title(recipe_data) == GetDefault(recipe_data, "name", NoTitleFound)

\* image_url from the node's image field, before the og:image fallback
ImageFromField(image_field) ==
    IF image_field.t = "str" THEN image_field
    ELSE IF image_field.t = "list" /\ image_field.kids # <<>>
    THEN LET first == image_field.kids[1][2] IN
         IF first.t = "str" THEN first
         ELSE IF first.t = "dict" THEN Or(Get(first, "url"), Get(first, "@id"))
         ELSE JNull
    ELSE IF image_field.t = "dict"
    THEN Or(Get(image_field, "url"), Get(image_field, "@id"))
    ELSE JNull

\* og is the content of the page's og:image meta tag, None without one
ImageUrl(recipe_data, og) ==
    LET image_url == ImageFromField(Get(recipe_data, "image")) IN
    IF ~Truthy(image_url) /\ Truthy(og) THEN og ELSE image_url

IsDigit(c) == c \in {"0", "1", "2", "3", "4", "5", "6", "7", "8", "9"}

DigitValue(c) == CHOOSE k \in 0..9 : Digits[k + 1] = c

RECURSIVE DigitsToInt(_)
\* the number a run of digits spells
DigitsToInt(ds) ==
    IF ds = <<>> THEN 0
    ELSE 10 * DigitsToInt(SubSeq(ds, 1, Len(ds) - 1)) + DigitValue(ds[Len(ds)])

\* the end of the run of digits that starts at i (i - 1 when there is none)
DigitRunEnd(s, i) ==
    IF \E j \in i..Len(s) : ~IsDigit(s[j])
    THEN (CHOOSE j \in i..Len(s) : ~IsDigit(s[j]) /\ \A k \in i..(j - 1) : IsDigit(s[k])) - 1
    ELSE Len(s)

\* re.search(r"(\d+(?:\.\d+)?)", s): the whole part of the first number in s
YieldSearch(s) ==
    IF \E i \in 1..Len(s) : IsDigit(s[i])
    THEN LET i == CHOOSE i \in 1..Len(s) : IsDigit(s[i]) /\ \A k \in 1..(i - 1) : ~IsDigit(s[k])
             j == DigitRunEnd(s, i)
             f == IF j + 2 <= Len(s) /\ s[j + 1] = "." /\ IsDigit(s[j + 2])
                  THEN DigitRunEnd(s, j + 2) ELSE j
         IN  [ok |-> TRUE, whole |-> SubSeq(s, i, j), frac |-> SubSeq(s, j + 2, f)]
    ELSE [ok |-> FALSE, whole |-> <<>>, frac |-> <<>>]

\* int(x) of a finite number n/d: towards zero
Trunc(n, d) == IF n >= 0 THEN n \div d ELSE -((-n) \div d)

\* servings from recipeYield.  int(float('inf')) raises OverflowError, which
\* `except (TypeError, ValueError)` does not catch; int(float('nan')) raises
\* ValueError, which it does.
Servings(recipe_data) ==
    LET raw == Get(recipe_data, "recipeYield")
        recipe_yield == IF raw.t = "list" /\ raw.kids # <<>> THEN raw.kids[1][2] ELSE raw
    IN  IF recipe_yield.t \in {"bool", "int", "float"}
        THEN Ok(JInt(Trunc(recipe_yield.n, recipe_yield.d)))
        ELSE IF recipe_yield.t = "inf" THEN Raised
        ELSE IF recipe_yield.t = "nan" THEN Ok(JNull)
        ELSE IF recipe_yield.t = "str"
        THEN LET match == YieldSearch(recipe_yield.s) IN
             IF match.ok THEN Ok(JInt(DigitsToInt(match.whole))) ELSE Ok(JNull)
        ELSE Ok(JNull)

\* ingredients = recipe_data.get("recipeIngredient", [])
Ingredients(recipe_data) == GetDefault(recipe_data, "recipeIngredient", JList(<<>>))

IsSpace(c) == c \in {" ", "\t", "\n"}

RECURSIVE LStrip(_)
LStrip(s) == IF s # <<>> /\ IsSpace(Head(s)) THEN LStrip(Tail(s)) ELSE s

RECURSIVE RStrip(_)
RStrip(s) ==
    IF s # <<>> /\ IsSpace(s[Len(s)]) THEN RStrip(SubSeq(s, 1, Len(s) - 1)) ELSE s

\* str.strip()
Strip(s) == RStrip(LStrip(s))

\* the text of a dict key, for the loops that iterate over a dict
KeyText(key) ==
    CASE key = "@type" -> <<"@", "t", "y", "p", "e">>
      [] key = "text" -> <<"t", "e", "x", "t">>
      [] key = "name" -> <<"n", "a", "m", "e">>
      [] key = "url" -> <<"u", "r", "l">>
      [] key = "@id" -> <<"@", "i", "d">>
      [] OTHER -> <<"k", "e", "y">>

\* `for x in v`: the items of a list, the characters of a str, the keys of a
\* dict; TypeError for None, a bool or a number
Iterate(v) ==
    CASE v.t = "list" -> [raised |-> FALSE, items |-> [i \in 1..Len(v.kids) |-> v.kids[i][2]]]
      [] v.t = "str" -> [raised |-> FALSE, items |-> [i \in 1..Len(v.s) |-> JStr(<<v.s[i]>>)]]
      [] v.t = "dict" -> [raised |-> FALSE,
                          items |-> [i \in 1..Len(v.kids) |-> JStr(KeyText(v.kids[i][1]))]]
      [] OTHER -> [raised |-> TRUE, items |-> <<>>]

\* _add_instruction_text: what one step appends to instructions.  A truthy
\* text that is not a str has no strip(): AttributeError.
AddInstructionText(step_obj) ==
    LET text == IF step_obj.t = "dict"
                THEN Or(Get(step_obj, "text"), Or(Get(step_obj, "name"), JStr(<<>>)))
                ELSE IF step_obj.t = "str" THEN step_obj
                ELSE JStr(<<>>)
        text2 == Or(text, JStr(<<>>))
    IN  IF text2.t # "str" THEN [raised |-> TRUE, val |-> <<>>]
        ELSE IF Strip(text2.s) # <<>> THEN Ok(<<Strip(text2.s)>>) ELSE Ok(<<>>)

HowToStep == <<"H", "o", "w", "T", "o", "S", "t", "e", "p">>
HowToSection == <<"H", "o", "w", "T", "o", "S", "e", "c", "t", "i", "o", "n">>

RECURSIVE AddEach(_, _)
\* for sub_step in ...: _add_instruction_text(sub_step)
AddEach(items, i) ==
    IF i > Len(items) THEN Ok(<<>>)
    ELSE LET one == AddInstructionText(items[i]) IN
         IF one.raised THEN [raised |-> TRUE, val |-> <<>>]
         ELSE LET more == AddEach(items, i + 1) IN
              IF more.raised THEN more ELSE Ok(one.val \o more.val)

\* the body of `for step in instructions_list`
AddStep(step) ==
    IF step.t = "dict"
    THEN LET step_type == Get(step, "@type") IN
         IF step_type.t = "str" /\ step_type.s = HowToStep THEN AddInstructionText(step)
         ELSE IF step_type.t = "str" /\ step_type.s = HowToSection
         THEN LET subs == Iterate(GetDefault(step, "itemListElement", JList(<<>>))) IN
              IF subs.raised THEN [raised |-> TRUE, val |-> <<>>]
              ELSE AddEach(subs.items, 1)
         ELSE Ok(<<>>)
    ELSE AddInstructionText(step)

RECURSIVE AddSteps(_, _)
AddSteps(items, i) ==
    IF i > Len(items) THEN Ok(<<>>)
    ELSE LET one == AddStep(items[i]) IN
         IF one.raised THEN [raised |-> TRUE, val |-> <<>>]
         ELSE LET more == AddSteps(items, i + 1) IN
              IF more.raised THEN more ELSE Ok(one.val \o more.val)

\* instructions from recipeInstructions
Instructions(recipe_data) ==
    LET steps == Iterate(GetDefault(recipe_data, "recipeInstructions", JList(<<>>))) IN
    IF steps.raised THEN [raised |-> TRUE, val |-> <<>>] ELSE AddSteps(steps.items, 1)

NutritionFields ==
    <<"servingSize", "calories", "carbohydrateContent", "proteinContent",
      "fatContent", "saturatedFatContent", "cholesterolContent", "sodiumContent",
      "fiberContent", "sugarContent">>

RECURSIVE PickNutrition(_, _)
\* for key in fields: if raw_nutrition.get(key): nutrition_info[key] = ...
PickNutrition(raw_nutrition, i) ==
    IF i > Len(NutritionFields) THEN <<>>
    ELSE IF Truthy(Get(raw_nutrition, NutritionFields[i]))
    THEN << <<NutritionFields[i], Get(raw_nutrition, NutritionFields[i])>> >>
             \o PickNutrition(raw_nutrition, i + 1)
    ELSE PickNutrition(raw_nutrition, i + 1)

\* nutrition_info
Nutrition(recipe_data) ==
    LET raw_nutrition == Get(recipe_data, "nutrition") IN
    IF raw_nutrition.t = "dict" /\ PickNutrition(raw_nutrition, 1) # <<>>
    THEN JDict(PickNutrition(raw_nutrition, 1))
    ELSE JNull

NoRecord ==
    [title |-> JNull, servings |-> JNull, ingredients |-> JNull, instructions |-> <<>>,
     nutrition |-> JNull, image_url |-> JNull, url |-> <<>>]

\* lines 111-207: the record built from the located node
Normalize(recipe_data, og, url) ==
    LET servings == Servings(recipe_data)
        instructions == Instructions(recipe_data)
    IN  IF servings.raised \/ instructions.raised
        THEN [raised |-> TRUE, record |-> NoRecord]
        ELSE [raised |-> FALSE,
              record |-> [title |-> Title(recipe_data),
                          servings |-> servings.val,
                          ingredients |-> Ingredients(recipe_data),
                          instructions |-> instructions.val,
                          nutrition |-> Nutrition(recipe_data),
                          image_url |-> ImageUrl(recipe_data, og),
                          url |-> url]]

(***************************************************************************)
(* scrape_recipe_data.  A block is the text of one JSON-LD script element: *)
(* empty, text json.loads rejects, or text it decodes to data.             *)
(***************************************************************************)
EmptyBlock == [raw |-> "empty", data |-> JNull]
MalformedBlock == [raw |-> "malformed", data |-> JNull]
JsonBlock(data) == [raw |-> "json", data |-> data]

\* json.loads(raw_json): JSONDecodeError on text that is not JSON
JsonLoads(block) ==
    IF block.raw = "json" THEN [raised |-> FALSE, data |-> block.data]
    ELSE [raised |-> TRUE, data |-> JNull]

NoOutcome == [kind |-> "pending", block |-> 0, node |-> JNull, record |-> NoRecord]

RECURSIVE ScanBlocks(_, _)

OnDecodeErrorPropagate(blocks, i) == [kind |-> "raised", block |-> i, r |-> NotFound]

\* except json.JSONDecodeError: continue
OnDecodeError(blocks, i) == ScanBlocks(blocks, i + 1)

OnNoRecipeStop(blocks, i) == [kind |-> "none", block |-> 0, r |-> NotFound]

\* `if recipe_data: break` not taken: on to the next script
OnNoRecipe(blocks, i) == ScanBlocks(blocks, i + 1)

\* for script in json_scripts: the block the loop breaks on and its node
ScanBlocks(blocks, i) ==
    IF i > Len(blocks) THEN [kind |-> "none", block |-> 0, r |-> NotFound]
    ELSE IF blocks[i].raw = "empty" THEN ScanBlocks(blocks, i + 1)
    ELSE LET loaded == JsonLoads(blocks[i]) IN
         IF loaded.raised THEN OnDecodeError(blocks, i)
         ELSE LET r == FindRecipeInJson(loaded.data, DefaultMaxDepth) IN
              IF IsFound(r) THEN [kind |-> "found", block |-> i, r |-> r]
              ELSE OnNoRecipe(blocks, i)

\* scrape_recipe_data(url) once the page is fetched
ScrapeFetched(p) ==
    LET scan == ScanBlocks(p.blocks, 1) IN
    IF scan.kind = "raised" THEN [NoOutcome EXCEPT !.kind = "raised", !.block = scan.block]
    ELSE IF scan.kind = "none" THEN [NoOutcome EXCEPT !.kind = "none"]
    ELSE LET n == Normalize(scan.r.node, p.og, p.url) IN
         [kind |-> IF n.raised THEN "raised" ELSE "record",
          block |-> scan.block, node |-> scan.r.node, record |-> n.record]

(***************************************************************************)
(* Ingredient quantities (app.py).  A quantity is a rational <<n, d>>,     *)
(* d > 0, standing for the float the code computes.                        *)
(***************************************************************************)
Rat(n, d) == <<n, d>>

RatEq(a, b) == a[1] * b[2] = b[1] * a[2]

RatMul(a, b) == <<a[1] * b[1], a[2] * b[2]>>

RECURSIVE Pow10(_)
Pow10(k) == IF k = 0 THEN 1 ELSE 10 * Pow10(k - 1)

\* the end of the run of whitespace that starts at i (i - 1 when there is none)
SpaceRunEnd(s, i) ==
    IF \E j \in i..Len(s) : ~IsSpace(s[j])
    THEN (CHOOSE j \in i..Len(s) : ~IsSpace(s[j]) /\ \A k \in i..(j - 1) : IsSpace(s[k])) - 1
    ELSE Len(s)

CharAt(s, i) == IF i \in 1..Len(s) THEN s[i] ELSE ""

\* \d+/\d+ at p: the end of the match, 0 without one
MatchFraction(s, p) ==
    LET a == DigitRunEnd(s, p)
        e == DigitRunEnd(s, a + 2)
    IN  IF a >= p /\ CharAt(s, a + 1) = "/" /\ e >= a + 2 THEN e ELSE 0

\* \d+\s+\d+/\d+ at p
MatchMixed(s, p) ==
    LET a == DigitRunEnd(s, p)
        b == SpaceRunEnd(s, a + 1)
    IN  IF a >= p /\ b >= a + 1 THEN MatchFraction(s, b + 1) ELSE 0

\* \d*\.\d+ at p
MatchDecimal(s, p) ==
    LET a == DigitRunEnd(s, p)
        e == DigitRunEnd(s, a + 2)
    IN  IF CharAt(s, a + 1) = "." /\ e >= a + 2 THEN e ELSE 0

\* \d+ at p
MatchInteger(s, p) == LET a == DigitRunEnd(s, p) IN IF a >= p THEN a ELSE 0

\* (.*)$ from the character after e: `.` matches no line feed and `$` matches
\* at the end of the text or before a line feed that ends it
TailMatches(s, e) == \A k \in (e + 1)..Len(s) : s[k] = "\n" => k = Len(s)

\* re.match(r'^\s*(\d+\s+\d+/\d+|\d+/\d+|\d*\.\d+|\d+)(.*)$', text).  Every
\* quantifier takes its longest run: a shorter run is followed by a character
\* of the run, which the next item of the pattern rejects, and a shorter last
\* run, or a later alternative, only lengthens the tail that failed.
QuantityMatch(text) ==
    LET p == SpaceRunEnd(text, 1) + 1
        e == IF MatchMixed(text, p) > 0 THEN MatchMixed(text, p)
             ELSE IF MatchFraction(text, p) > 0 THEN MatchFraction(text, p)
             ELSE IF MatchDecimal(text, p) > 0 THEN MatchDecimal(text, p)
             ELSE MatchInteger(text, p)
        last == IF text # <<>> /\ text[Len(text)] = "\n" /\ e < Len(text)
                THEN Len(text) - 1 ELSE Len(text)
    IN  IF e > 0 /\ TailMatches(text, e)
        THEN [ok |-> TRUE, qty_str |-> SubSeq(text, p, e), rest |-> SubSeq(text, e + 1, last)]
        ELSE [ok |-> FALSE, qty_str |-> <<>>, rest |-> <<>>]

Contains(s, c) == \E i \in 1..Len(s) : s[i] = c

IndexOf(s, c) == CHOOSE i \in 1..Len(s) : s[i] = c /\ \A k \in 1..(i - 1) : s[k] # c

AllDigits(s) == s # <<>> /\ \A i \in 1..Len(s) : IsDigit(s[i])

\* float(s) of the texts the pattern lets through: digits with at most one
\* point, ValueError otherwise (white space inside the text)
Float(s) ==
    IF AllDigits(s) THEN [ok |-> TRUE, val |-> Rat(DigitsToInt(s), 1)]
    ELSE IF Contains(s, ".")
    THEN LET i == IndexOf(s, ".")
             whole == SubSeq(s, 1, i - 1)
             frac == SubSeq(s, i + 1, Len(s))
         IN  IF AllDigits(frac) /\ (whole = <<>> \/ AllDigits(whole))
             THEN [ok |-> TRUE,
                   val |-> Rat(DigitsToInt(whole) * Pow10(Len(frac)) + DigitsToInt(frac),
                               Pow10(Len(frac)))]
             ELSE [ok |-> FALSE, val |-> Rat(0, 1)]
    ELSE [ok |-> FALSE, val |-> Rat(0, 1)]

NoQuantity(text) == [ok |-> FALSE, qty |-> Rat(0, 1), rest |-> text, qty_str |-> <<>>]

\* float(num_str) / float(den_str), then whole + that
FractionValue(whole, num_str, den_str) ==
    LET num == Float(num_str)
        den == Float(den_str)
    IN  IF ~num.ok \/ ~den.ok \/ den.val[1] = 0 THEN [ok |-> FALSE, val |-> Rat(0, 1)]
        ELSE [ok |-> TRUE,
              val |-> Rat(whole[1] * num.val[2] * den.val[1] + whole[2] * num.val[1] * den.val[2],
                          whole[2] * num.val[2] * den.val[1])]

\* lines 145-158: the value of qty_str; not ok on ValueError or ZeroDivisionError
QuantityValue(qty_str) ==
    IF Contains(qty_str, " ") /\ Contains(qty_str, "/")
    THEN \* qty_str.split(): the pattern leaves one run of white space in it
         LET a == DigitRunEnd(qty_str, 1)
             b == SpaceRunEnd(qty_str, a + 1)
             frac_str == SubSeq(qty_str, b + 1, Len(qty_str))
             i == IndexOf(frac_str, "/")
             whole == Float(SubSeq(qty_str, 1, a))
         IN  IF ~whole.ok THEN [ok |-> FALSE, val |-> Rat(0, 1)]
             ELSE FractionValue(whole.val, SubSeq(frac_str, 1, i - 1),
                                SubSeq(frac_str, i + 1, Len(frac_str)))
    ELSE IF Contains(qty_str, "/")
    THEN LET i == IndexOf(qty_str, "/") IN
         FractionValue(Rat(0, 1), SubSeq(qty_str, 1, i - 1),
                       SubSeq(qty_str, i + 1, Len(qty_str)))
    ELSE Float(qty_str)

\* _parse_quantity_and_rest
ParseQuantityAndRest(text) ==
    LET match == QuantityMatch(text) IN
    IF ~match.ok THEN NoQuantity(text)
    ELSE LET qty == QuantityValue(match.qty_str) IN
         IF ~qty.ok THEN NoQuantity(text)
         ELSE [ok |-> TRUE, qty |-> qty.val, rest |-> match.rest, qty_str |-> match.qty_str]

\* round(a / b), b > 0: to the nearest integer, a tie to the even one
RoundTruncates(a, b) == a \div b

Round(a, b) ==
    LET q == a \div b
        r == a % b
    IN  IF 2 * r < b THEN q
        ELSE IF 2 * r > b THEN q + 1
        ELSE IF q % 2 = 0 THEN q ELSE q + 1

\* fraction_map
FractionMap(remainder) ==
    CASE remainder = 1 -> <<"1", "/", "8">>
      [] remainder = 2 -> <<"1", "/", "4">>
      [] remainder = 3 -> <<"3", "/", "8">>
      [] remainder = 4 -> <<"1", "/", "2">>
      [] remainder = 5 -> <<"5", "/", "8">>
      [] remainder = 6 -> <<"3", "/", "4">>
      [] remainder = 7 -> <<"7", "/", "8">>

\* _format_quantity, of a finite value
FormatQuantity(v) ==
    LET n_eighths == Round(v[1] * 8, v[2])
        whole == n_eighths \div 8
        remainder == n_eighths % 8
    IN  IF whole = 0 /\ remainder = 0 THEN <<"0">>
        ELSE IF remainder = 0 THEN IntToStr(whole)
        ELSE IF whole = 0 THEN FractionMap(remainder)
        ELSE IntToStr(whole) \o <<" ">> \o FractionMap(remainder)

ScaleIngredientLineUnscaled(text, f) ==
    LET p == ParseQuantityAndRest(text) IN
    IF ~p.ok THEN text
    ELSE FormatQuantity(p.qty) \o p.rest

ScaleIngredientLineSpaced(text, f) ==
    LET p == ParseQuantityAndRest(text) IN
    IF ~p.ok THEN text
    ELSE FormatQuantity(RatMul(p.qty, f)) \o <<" ">> \o p.rest

\* _scale_ingredient_line
ScaleIngredientLine(text, f) ==
    LET p == ParseQuantityAndRest(text) IN
    IF ~p.ok THEN text
    ELSE FormatQuantity(RatMul(p.qty, f)) \o p.rest

(***************************************************************************)
(* Documents handed to the locator.                                        *)
(***************************************************************************)
MaxWrap == 5
MaxFields == 3

TypeRecipe == JStr(<<"R", "e", "c", "i", "p", "e">>)
TypeThing == JStr(<<"T", "h", "i", "n", "g">>)
TypeRecipeUpper == JStr(<<"R", "E", "C", "I", "P", "E">>)

\* {"@type": "Recipe"}
RecipeNode == JDict(<< <<"@type", TypeRecipe>> >>)
\* {"@type": ["Thing", "RECIPE"]}
RecipeListNode == JDict(<< <<"@type", JList(<<TypeThing, TypeRecipeUpper>>)>> >>)
\* {"@type": "Thing"}
ThingNode == JDict(<< <<"@type", TypeThing>> >>)
\* {"@type": [null, 5]}
OddTypeNode == JDict(<< <<"@type", JList(<<JNull, JInt(5)>>)>> >>)
\* the string "recipe", which is no object
RecipeWord == JStr(RecipeLower)

Atoms == {RecipeNode, RecipeListNode, ThingNode, OddTypeNode, RecipeWord}

\* one more level of nesting around x
Wraps(x) == {JList(<<x>>), JDict(<< <<"@graph", x>> >>), JDict(<< <<"a", x>> >>)}

RECURSIVE Chains(_)
\* an atom under up to k levels of nesting
Chains(k) ==
    IF k = 0 THEN Atoms
    ELSE LET inner == Chains(k - 1) IN inner \cup UNION {Wraps(x) : x \in inner}

FieldKeys == {"@graph", "graph", "mainEntity", "a", "b"}

FieldValues == {RecipeNode, ThingNode, JList(<<RecipeNode>>), RecipeWord}

\* sequences of at most n distinct keys
KeySeqs(n) ==
    UNION {{ks \in [1..k -> FieldKeys] : \A i, j \in 1..k : i # j => ks[i] # ks[j]}
           : k \in 1..n}

\* objects of at most n fields, in every document order of their keys
WideDicts(n) ==
    UNION {{JDict([i \in 1..Len(ks) |-> <<ks[i], vs[i]>>])
            : vs \in [1..Len(ks) -> FieldValues]} : ks \in KeySeqs(n)}

\* arrays of at most n items
WideLists(n) ==
    UNION {{JList(vs) : vs \in [1..k -> FieldValues]} : k \in 0..n}

LocateDocs == Chains(MaxWrap) \cup WideDicts(MaxFields) \cup WideLists(MaxFields)

(***************************************************************************)
(* Pages handed to scrape_recipe_data.                                     *)
(***************************************************************************)
MaxBlocks == 3
MaxItems == 2

Text(s) == JStr(s)

\* a recipe node with a name
NamedRecipe(name) == JDict(<< <<"@type", TypeRecipe>>, <<"name", Text(name)>> >>)

\* a recipe 5 descents down, out of the locator's reach
BuriedRecipe == JList(<<JList(<<JList(<<JList(<<JList(<<NamedRecipe(<<"Z">>)>>)>>)>>)>>)>>)

ScanBlocksSet ==
    {EmptyBlock, MalformedBlock, JsonBlock(ThingNode), JsonBlock(BuriedRecipe),
     JsonBlock(NamedRecipe(<<"A">>)),
     JsonBlock(JDict(<< <<"@graph", JList(<<ThingNode, NamedRecipe(<<"B">>)>>)>> >>))}

PageUrl == <<"u">>

\* pages of up to MaxBlocks script elements
SeqPages ==
    UNION {{[blocks |-> bs, og |-> JNull, url |-> PageUrl] : bs \in [1..k -> ScanBlocksSet]}
           : k \in 0..MaxBlocks}

StepDict(type, key, val) == JDict(<< <<"@type", Text(type)>>, <<key, val>> >>)

\* what the elements of an array-valued field can be
Elements ==
    {JNull, JInt(4), JInf, Text(<<>>), Text(<<" ", "a", " ">>), Text(<<"4", ".", "5", " ", "x">>),
     JList(<<Text(<<"b">>)>>),
     JDict(<< <<"url", Text(<<"u">>)>> >>),
     JDict(<< <<"url", Text(<<>>)>>, <<"@id", Text(<<"i">>)>> >>),
     StepDict(HowToStep, "text", Text(<<"s", "\n">>)),
     StepDict(HowToStep, "text", JInt(5)),
     StepDict(HowToStep, "name", Text(<<"n">>)),
     StepDict(<<"O">>, "text", Text(<<"o">>)),
     StepDict(HowToSection, "itemListElement",
              JList(<<StepDict(HowToStep, "text", Text(<<" ", "p">>)), Text(<<"q">>),
                      StepDict(HowToSection, "name", Text(<<"r">>))>>)),
     StepDict(HowToSection, "itemListElement", JNull),
     StepDict(HowToSection, "name", Text(<<"t">>))}

\* what a field of a recipe node can be: every JSON type
FieldValueSet ==
    {JNull, JBool(TRUE), JBool(FALSE), JInt(0), JInt(6), JFloat(9, 2), JFloat(-9, 2),
     JInf, JNaN,
     Text(<<>>), Text(<<" ">>), Text(<<"S", " ", "4", "-", "6">>), Text(<<"4", ".", "5", " ", "x">>),
     Text(<<"x">>),
     JDict(<<>>), JDict(<< <<"url", Text(<<"u">>)>> >>),
     JDict(<< <<"@id", Text(<<"i">>)>> >>),
     StepDict(HowToStep, "text", Text(<<"s">>)),
     JDict(<< <<"sugarContent", Text(<<"5">>)>>, <<"x", Text(<<"y">>)>>,
              <<"calories", Text(<<"1">>)>> >>),
     JDict(<< <<"calories", JInt(0)>>, <<"x", Text(<<"y">>)>> >>)}
    \cup UNION {{JList(vs) : vs \in [1..k -> Elements]} : k \in 0..MaxItems}

RecipeFields ==
    {"name", "image", "recipeYield", "recipeIngredient", "recipeInstructions", "nutrition"}

\* a well-formed recipe node
BaseRecipe ==
    << <<"@type", TypeRecipe>>,
       <<"name", Text(<<"A">>)>>,
       <<"image", Text(<<"i">>)>>,
       <<"recipeYield", JInt(4)>>,
       <<"recipeIngredient", JList(<<Text(<<"1", " ", "c">>)>>)>>,
       <<"recipeInstructions", JList(<<Text(<<"m">>)>>)>>,
       <<"nutrition", JDict(<< <<"calories", Text(<<"1">>)>> >>)>> >>

\* the recipe node with one field given another value
RecipeWith(field, v) ==
    JDict([i \in 1..Len(BaseRecipe) |->
              IF BaseRecipe[i][1] = field THEN <<field, v>> ELSE BaseRecipe[i]])

\* the recipe node lacking one field
RecipeWithout(field) == JDict(SelectSeq(BaseRecipe, LAMBDA kv : kv[1] # field))

OgValues == {JNull, Text(<<"o">>)}

\* pages of one script element holding a recipe node
FieldPages ==
    {[blocks |-> <<JsonBlock(node)>>, og |-> og, url |-> PageUrl] :
        node \in {RecipeWith(f, v) : f \in RecipeFields, v \in FieldValueSet}
                 \cup {RecipeWithout(f) : f \in RecipeFields},
        og \in OgValues}

Pages == SeqPages \cup FieldPages

(***************************************************************************)
(* Ingredient lines, values and factors handed to the quantity functions.  *)
(***************************************************************************)
MaxLen == 5
MaxScaleLen == 4
MaxNum == 40

LineChars == {"0", "1", "2", "/", ".", " ", "\n", "c"}

\* every text of at most n characters
Lines(n) == UNION {[1..k -> LineChars] : k \in 0..n}

Flour == <<"1", " ", "1", "/", "2", " ", "c", "u", "p", "s", " ", "f", "l", "o", "u", "r">>
Sugar == <<"1", "/", "4", " ", "c", "u", "p", " ", "s", "u", "g", "a", "r">>
Salt == <<"a", " ", "p", "i", "n", "c", "h", " ", "o", "f", " ", "s", "a", "l", "t">>

ExampleLines ==
    {Flour, Sugar, Salt,
     <<"1", "\t", "1", "/", "2", " ", "c", "u", "p", "s">>,
     <<"1", " ", " ", "1", "/", "2", " ", "c", "u", "p", "s">>,
     <<" ", "1", " ", "1", "/", "2", " ", "c", "u", "p", "s">>,
     <<"1", "/", "3", " ", "c", "u", "p">>,
     <<"0", ".", "5", " ", "o", "n", "i", "o", "n">>,
     <<"2", " ", "c", "u", "p", "s", "\n">>}

\* k/d for the denominators of whole numbers, thirds, half-eighths, hundredths
Values == {Rat(k, d) : k \in 0..MaxNum, d \in {1, 3, 16, 100}}

\* target_servings / base_servings
Factors == {Rat(1, 2), Rat(1, 1), Rat(2, 1), Rat(3, 1)}

(***************************************************************************)
(* The recipe store of app.py and database.py: one document holding the    *)
(* whole recipe list, one holding the meal plan.  A recipe is [id, url,    *)
(* favorite, serial]; serial is not stored: it numbers the add_recipe      *)
(* requests and tells two recipes apart that were given the same id.  A    *)
(* plan maps a day to a recipe id, 0 for None or no entry.                 *)
(***************************************************************************)
MaxAdds == 3
MaxOrder == 2

\* the days of DAYS_OF_WEEK the requests name
Days == {"Monday", "Tuesday"}

\* the pages the add_recipe requests name
Urls == {"u", "v"}

\* recipe ids a request can name
RecipeIds == 1..MaxAdds

NoPlan == [d \in Days |-> 0]

HasId(rs, id) == \E i \in 1..Len(rs) : rs[i].id = id

\* next((r for r in recipes if r['id'] == recipe_id), None): its index
FirstIndex(rs, id) == CHOOSE i \in 1..Len(rs) : rs[i].id = id /\ \A k \in 1..(i - 1) : rs[k].id # id

\* {r['id']: r for r in recipes}[id]: a later recipe replaces an earlier one
RecipeMap(rs, id) ==
    rs[CHOOSE i \in 1..Len(rs) : rs[i].id = id /\ \A k \in (i + 1)..Len(rs) : rs[k].id # id]

MaxOf(S) == CHOOSE m \in S : \A k \in S : k <= m

\* new_id = max([r['id'] for r in recipes] + [0]) + 1
NewId(rs) == MaxOf({rs[i].id : i \in 1..Len(rs)} \cup {0}) + 1

\* add_recipe after a successful scrape: recipes.insert(0, new_recipe)
AddRecipe(rs, url, n) ==
    <<[id |-> NewId(rs), url |-> url, favorite |-> FALSE, serial |-> n]>> \o rs

\* delete_recipe: a favorited recipe is kept (and nothing saved)
DeleteRecipe(rs, id) ==
    IF HasId(rs, id) /\ rs[FirstIndex(rs, id)].favorite THEN rs
    ELSE SelectSeq(rs, LAMBDA r : r.id # id)

\* toggle_favorite
ToggleFavorite(rs, id) ==
    IF HasId(rs, id)
    THEN [rs EXCEPT ![FirstIndex(rs, id)].favorite = ~rs[FirstIndex(rs, id)].favorite]
    ELSE rs

RECURSIVE UpdateOrder(_, _)
\* update_order: the recipes named by new_order, in that order
UpdateOrder(rs, new_order) ==
    IF new_order = <<>> THEN <<>>
    ELSE IF HasId(rs, Head(new_order))
    THEN <<RecipeMap(rs, Head(new_order))>> \o UpdateOrder(rs, Tail(new_order))
    ELSE UpdateOrder(rs, Tail(new_order))

RECURSIVE DedupeFrom(_, _)
\* the loop of _dedupe_recipes_by_url: deduped so far, recipes still to visit
DedupeFrom(deduped, rest) ==
    IF rest = <<>> THEN deduped
    ELSE LET recipe == Head(rest) IN
         IF \E i \in 1..Len(deduped) : deduped[i].url = recipe.url
         THEN LET i == CHOOSE i \in 1..Len(deduped) : deduped[i].url = recipe.url IN
              DedupeFrom(IF recipe.favorite THEN [deduped EXCEPT ![i].favorite = TRUE]
                         ELSE deduped,
                         Tail(rest))
         ELSE DedupeFrom(Append(deduped, recipe), Tail(rest))

\* dedupe_recipes
DedupeRecipes(rs) == DedupeFrom(<<>>, rs)

\* new_plan[day] = rid if rid in recipe_map else None
PlanEntry(rs, rid) == IF rid # 0 /\ HasId(rs, rid) THEN rid ELSE 0

\* the serial of the recipe an entry of the plan names at the time it is set
SerialOf(rs, rid) == IF rid # 0 /\ HasId(rs, rid) THEN RecipeMap(rs, rid).serial ELSE 0

\* the requests that may overlap
Requests == {1, 2}

NoRequest == [op |-> "none", arg |-> 0, at |-> "done", local |-> <<>>]

\* what a request saves, given the list it loaded.  Request p adds the page
\* of serial p.
Modified(p, req, rs) ==
    IF req.op = "add" THEN AddRecipe(rs, "u", p) ELSE ToggleFavorite(rs, req.arg)

(***************************************************************************)
(* Values of the variables a specification does not use.                   *)
(***************************************************************************)
NoPage == [blocks |-> <<>>, og |-> JNull, url |-> <<>>]
NoParse == NoQuantity(<<>>)

IdleLocate == doc = JNull /\ found = NotFound
IdleScrape == page = NoPage /\ outcome = NoOutcome
IdleParse == line = <<>> /\ parsed = NoParse
IdleFormat == value = <<0, 1>> /\ formatted = <<>>
IdleScale == factor = <<1, 1>> /\ scaled = <<>>
IdlePlan == plan = NoPlan /\ assigned = NoPlan /\ serial = 0
IdleRequests == reqs = [p \in Requests |-> NoRequest] /\ base = <<>>
IdleStore == recipes = <<>> /\ IdlePlan /\ IdleRequests

(***************************************************************************)
(* The locator called on one decoded document with the default budget.     *)
(***************************************************************************)
InitLocate ==
    /\ pc = "locate"
    /\ doc \in LocateDocs
    /\ found = NotFound
    /\ IdleScrape /\ IdleParse /\ IdleFormat /\ IdleScale /\ IdleStore

Locate ==
    /\ pc = "locate"
    /\ found' = FindRecipeInJson(doc, DefaultMaxDepth)
    /\ pc' = "located"
    /\ UNCHANGED <<doc, page, outcome, line, parsed, value, formatted, factor, scaled, storeVars>>

SpecLocate == InitLocate /\ [][Locate]_vars

(***************************************************************************)
(* The places of a document: the kids indices from the root to each value. *)
(***************************************************************************)
RECURSIVE Positions(_)
Positions(v) ==
    {<<>>} \cup UNION {{<<i>> \o p : p \in Positions(v.kids[i][2])}
                       : i \in 1..Len(v.kids)}

RECURSIVE NodeAt(_, _)
NodeAt(v, p) == IF p = <<>> THEN v ELSE NodeAt(v.kids[Head(p)][2], Tail(p))

\* v is an object whose @type is a string equal to "recipe" whatever the case of
\* its letters, or a list that holds such a string
RecipeTyped(v) ==
    /\ v.t = "dict"
    /\ \E i \in 1..Len(v.kids) :
          /\ v.kids[i][1] = "@type"
          /\ LET ty == v.kids[i][2] IN
             \/ ty.t = "str" /\ Lower(ty.s) = <<"r", "e", "c", "i", "p", "e">>
             \/ /\ ty.t = "list"
                /\ \E k \in 1..Len(ty.kids) :
                      /\ ty.kids[k][2].t = "str"
                      /\ Lower(ty.kids[k][2].s) = <<"r", "e", "c", "i", "p", "e">>

RecipePositions(v) == {p \in Positions(v) : RecipeTyped(NodeAt(v, p))}

\* the recipe-typed objects at most 4 descents below the root
NearRecipes(v) == {p \in RecipePositions(v) : Len(p) <= 4}

Located == pc = "located"

\* C1 as stated: every document that holds a recipe-typed object, at whatever
\* depth, makes the locator return a node, and that node passes the type test.
C1_FoundAtAnyDepth ==
    (Located /\ RecipePositions(doc) # {})
        => (found.hit /\ RecipeTyped(found.node))

\* C1 as amended: every document that holds a recipe-typed object at most 4
\* descents below its root makes the locator return a node of the document,
\* and that node passes the type test.
C1_FoundWithinBudget ==
    (Located /\ NearRecipes(doc) # {})
        => /\ found.hit
           /\ found.path \in Positions(doc)
           /\ NodeAt(doc, found.path) = found.node
           /\ RecipeTyped(found.node)

\* a recipe exactly 4 descents down is found
C1_Witness == Located /\ found.hit /\ Len(found.path) = 4

\* the order in which an object probes a key: @graph, graph, mainEntity, the rest
PriorityRank(key) ==
    CASE key = "@graph" -> 1 [] key = "graph" -> 2 [] key = "mainEntity" -> 3
      [] OTHER -> 4

\* kid i of n is searched for the first time before kid j
ChildBefore(n, i, j) ==
    IF n.t = "dict"
    THEN \/ PriorityRank(n.kids[i][1]) < PriorityRank(n.kids[j][1])
         \/ PriorityRank(n.kids[i][1]) = PriorityRank(n.kids[j][1]) /\ i < j
    ELSE i < j

IsPrefix(p, q) == Len(p) <= Len(q) /\ SubSeq(q, 1, Len(p)) = p

\* place p of v comes before place q in the search: p is above q, or they part
\* at a value whose kid towards p is searched first
SearchedBefore(v, p, q) ==
    \/ p # q /\ IsPrefix(p, q)
    \/ \E k \in 1..Len(p) :
          /\ k <= Len(q)
          /\ SubSeq(p, 1, k - 1) = SubSeq(q, 1, k - 1)
          /\ p[k] # q[k]
          /\ ChildBefore(NodeAt(v, SubSeq(p, 1, k - 1)), p[k], q[k])

\* C2 as stated: no recipe-typed object lies at fewer descents than the node
\* returned.
C2_ClosestToRoot ==
    (Located /\ found.hit)
        => \A q \in RecipePositions(doc) : Len(q) >= Len(found.path)

\* C2 as amended: the node returned is recipe-typed and is the first one in the
\* search order among the recipe-typed objects within 4 descents: no such
\* object lies above it or in a part of the document searched earlier.  A
\* recipe-typed root is returned itself.
C2_FirstInSearchOrder ==
    (Located /\ found.hit)
        => /\ found.path \in NearRecipes(doc)
           /\ \A q \in NearRecipes(doc) \ {found.path} :
                  SearchedBefore(doc, found.path, q)
           /\ (RecipeTyped(doc) => found.path = <<>>)

\* a nested node is returned from a document holding several recipes
C2_Witness ==
    /\ Located /\ found.hit /\ found.path # <<>>
    /\ Cardinality(NearRecipes(doc)) >= 2

\* the kids of v under which a recipe-typed object is in reach
MatchKids(v) == {i \in 1..Len(v.kids) : \E q \in NearRecipes(v) : q # <<>> /\ q[1] = i}

PriorityKids(v) == {i \in 1..Len(v.kids) : PriorityRank(v.kids[i][1]) < 4}

\* the member of a non-empty set of kids that is probed first
FirstProbed(v, S) == CHOOSE i \in S : \A j \in S \ {i} : ChildBefore(v, i, j)

Least(S) == CHOOSE i \in S : \A j \in S : i <= j

PlainObject == Located /\ doc.t = "dict" /\ ~RecipeTyped(doc)

UnderKid(i) == found.hit /\ found.path # <<>> /\ found.path[1] = i

\* C4 as stated: only the priority key present first is probed; when it gives
\* no match the fields are scanned in document order, so that a recipe under an
\* ordinary field wins over one under a later priority key that follows it.
C4_FirstPresentKeyOnly ==
    PlainObject =>
        IF PriorityKids(doc) # {} /\ FirstProbed(doc, PriorityKids(doc)) \in MatchKids(doc)
        THEN UnderKid(FirstProbed(doc, PriorityKids(doc)))
        ELSE IF MatchKids(doc) # {} THEN UnderKid(Least(MatchKids(doc)))
        ELSE ~found.hit

\* C4 as amended: every priority key present is probed, in the fixed order, and
\* the first match is returned; only when none of them gives a match are the
\* fields scanned in document order.
C4_EveryPresentKey ==
    PlainObject =>
        IF PriorityKids(doc) \cap MatchKids(doc) # {}
        THEN UnderKid(FirstProbed(doc, PriorityKids(doc) \cap MatchKids(doc)))
        ELSE IF MatchKids(doc) # {} THEN UnderKid(Least(MatchKids(doc)))
        ELSE ~found.hit

\* an earlier priority key without a recipe, then an ordinary field with one,
\* then a later priority key with one: the later priority key wins
C4_Witness ==
    /\ PlainObject /\ found.hit
    /\ \E i, j, k \in 1..Len(doc.kids) :
          /\ i \in PriorityKids(doc) \ MatchKids(doc)
          /\ j \in MatchKids(doc) \ PriorityKids(doc)
          /\ k \in PriorityKids(doc) \cap MatchKids(doc)
          /\ ChildBefore(doc, i, k) /\ j < k
          /\ UnderKid(k)

(***************************************************************************)
(* scrape_recipe_data(url) on one page.                                    *)
(***************************************************************************)
InitScrape ==
    /\ pc = "scrape"
    /\ page \in Pages
    /\ outcome = NoOutcome
    /\ IdleLocate /\ IdleParse /\ IdleFormat /\ IdleScale /\ IdleStore

\* requests.get fails (return None) or gives the page
ScrapeRecipeData ==
    /\ pc = "scrape"
    /\ \E fetched \in BOOLEAN :
          outcome' = IF fetched THEN ScrapeFetched(page)
                     ELSE [NoOutcome EXCEPT !.kind = "fetch_failed"]
    /\ pc' = "scraped"
    /\ UNCHANGED <<doc, found, page, line, parsed, value, formatted, factor, scaled, storeVars>>

SpecScrape == InitScrape /\ [][ScrapeRecipeData]_vars

Scraped == pc = "scraped"

\* scrape_recipe_data returned None
ReturnedNone == outcome.kind \in {"fetch_failed", "none"}

DecodedBlocks == {i \in 1..Len(page.blocks) : page.blocks[i].raw = "json"}

\* C3: when no block of the page holds a recipe-typed object, the locator
\* returns None for every block and scrape_recipe_data returns None.
C3_NoRecipeNoRecord ==
    (Scraped /\ \A i \in DecodedBlocks : RecipePositions(page.blocks[i].data) = {})
        => /\ ReturnedNone
           /\ \A i \in DecodedBlocks :
                  ~FindRecipeInJson(page.blocks[i].data, DefaultMaxDepth).hit

\* a fetched page with a typed object that is no recipe gives None
C3_Witness ==
    /\ Scraped /\ outcome.kind = "none"
    /\ \E i \in DecodedBlocks : page.blocks[i].data = ThingNode
    /\ \A i \in DecodedBlocks : RecipePositions(page.blocks[i].data) = {}

\* the blocks that decode and hold a recipe-typed object in the locator's reach
YieldingBlocks == {i \in DecodedBlocks : NearRecipes(page.blocks[i].data) # {}}

\* C5: empty and malformed blocks are skipped without aborting; the node that
\* is normalized, and any record returned, comes from the first block in scan
\* order in which the locator finds a node; None is returned for a fetched page
\* only when no block yields a node.
C5_FirstYieldingBlock ==
    (Scraped /\ outcome.kind # "fetch_failed")
        => IF YieldingBlocks = {} THEN outcome.kind = "none"
           ELSE /\ outcome.kind \in {"record", "raised"}
                /\ outcome.block = Least(YieldingBlocks)
                /\ \E q \in NearRecipes(page.blocks[outcome.block].data) :
                      outcome.node = NodeAt(page.blocks[outcome.block].data, q)
                /\ outcome.kind = "record" =>
                      \/ \E k \in 1..Len(outcome.node.kids) :
                            /\ outcome.node.kids[k][1] = "name"
                            /\ outcome.record.title = outcome.node.kids[k][2]
                      \/ /\ \A k \in 1..Len(outcome.node.kids) :
                               outcome.node.kids[k][1] # "name"
                         /\ outcome.record.title = NoTitleFound

\* a malformed block, then a block without a recipe, then the recipe
C5_Witness ==
    /\ Scraped /\ outcome.kind = "record" /\ outcome.block = 3
    /\ page.blocks[1].raw = "malformed"
    /\ page.blocks[2].raw = "json"

\* C6: normalization never raises: once a node is located, a record is
\* returned.
C6_NeverRaises == Scraped => outcome.kind # "raised"

(***************************************************************************)
(* _parse_quantity_and_rest(text) on one line.                             *)
(***************************************************************************)
InitParse ==
    /\ pc = "parse"
    /\ line \in Lines(MaxLen) \cup ExampleLines
    /\ parsed = NoParse
    /\ IdleLocate /\ IdleScrape /\ IdleFormat /\ IdleScale /\ IdleStore

Parse ==
    /\ pc = "parse"
    /\ parsed' = ParseQuantityAndRest(line)
    /\ pc' = "parsed"
    /\ UNCHANGED <<doc, found, page, outcome, line, value, formatted, factor, scaled, storeVars>>

SpecParse == InitParse /\ [][Parse]_vars

(***************************************************************************)
(* _format_quantity(value) on one value.                                   *)
(***************************************************************************)
InitFormat ==
    /\ pc = "format"
    /\ value \in Values
    /\ formatted = <<>>
    /\ IdleLocate /\ IdleScrape /\ IdleParse /\ IdleScale /\ IdleStore

Format ==
    /\ pc = "format"
    /\ formatted' = FormatQuantity(value)
    /\ pc' = "formatted"
    /\ UNCHANGED <<doc, found, page, outcome, line, parsed, value, factor, scaled, storeVars>>

SpecFormat == InitFormat /\ [][Format]_vars

(***************************************************************************)
(* _scale_ingredient_line(text, factor) on one line.                       *)
(***************************************************************************)
InitScale ==
    /\ pc = "scale"
    /\ line \in Lines(MaxScaleLen) \cup ExampleLines
    /\ parsed = NoParse
    /\ factor = Rat(1, 1)
    /\ scaled = <<>>
    /\ IdleLocate /\ IdleScrape /\ IdleFormat /\ IdleStore

Scale ==
    /\ pc = "scale"
    /\ \E f \in Factors :
          /\ factor' = f
          /\ parsed' = ParseQuantityAndRest(line)
          /\ scaled' = ScaleIngredientLine(line, f)
    /\ pc' = "scaled"
    /\ UNCHANGED <<doc, found, page, outcome, line, value, formatted, storeVars>>

SpecScale == InitScale /\ [][Scale]_vars

(***************************************************************************)
(* The quantity at the head of a line, as the contract words it.           *)
(***************************************************************************)
\* the line after its leading white space
Body(s) == SubSeq(s, SpaceRunEnd(s, 1) + 1, Len(s))

Digs(t) == t # <<>> /\ \A i \in 1..Len(t) : t[i] \in {"0", "1", "2", "3", "4", "5", "6", "7", "8", "9"}

Before(t, i) == SubSeq(t, 1, i - 1)
After(t, i) == SubSeq(t, i + 1, Len(t))

\* N/D
IsFractionText(t) == \E i \in 1..Len(t) : t[i] = "/" /\ Digs(Before(t, i)) /\ Digs(After(t, i))

\* W N/D: a whole number, white space, a fraction
IsMixedText(t) ==
    \E i, j \in 1..Len(t) :
        /\ i <= j
        /\ Digs(Before(t, i))
        /\ \A k \in i..j : IsSpace(t[k])
        /\ IsFractionText(After(t, j))

\* X.Y, the digits before the point optional
IsDecimalText(t) ==
    \E i \in 1..Len(t) :
        t[i] = "." /\ (i = 1 \/ Digs(Before(t, i))) /\ Digs(After(t, i))

IsForm(form, t) ==
    CASE form = 1 -> IsMixedText(t)
      [] form = 2 -> IsFractionText(t)
      [] form = 3 -> IsDecimalText(t)
      [] OTHER -> Digs(t)

\* the lengths of the heads of b that have the form
FormHeads(form, b) == {k \in 1..Len(b) : IsForm(form, SubSeq(b, 1, k))}

Most(S) == CHOOSE k \in S : \A j \in S : j <= k

\* the first of the four forms, in their order, that heads b (0: none does)
LeadingForm(b) ==
    IF \E f \in 1..4 : FormHeads(f, b) # {}
    THEN CHOOSE f \in 1..4 : FormHeads(f, b) # {} /\ \A g \in 1..(f - 1) : FormHeads(g, b) = {}
    ELSE 0

\* the value of the text of a whole number
Whole(t) == Rat(DigitsToInt(t), 1)

\* the value of a fraction text; its denominator may be 0
FractionOf(t) ==
    LET i == CHOOSE i \in 1..Len(t) : t[i] = "/" IN
    <<DigitsToInt(Before(t, i)), DigitsToInt(After(t, i))>>

\* the value of a token of the given form whose denominator is not 0
TokenValue(form, t) ==
    CASE form = 1 ->
           LET a == DigitRunEnd(t, 1)
               fr == FractionOf(SubSeq(t, SpaceRunEnd(t, a + 1) + 1, Len(t)))
           IN  Rat(DigitsToInt(SubSeq(t, 1, a)) * fr[2] + fr[1], fr[2])
      [] form = 2 -> FractionOf(t)
      [] form = 3 ->
           LET i == CHOOSE i \in 1..Len(t) : t[i] = "." IN
           Rat(DigitsToInt(Before(t, i)) * Pow10(Len(t) - i) + DigitsToInt(After(t, i)),
               Pow10(Len(t) - i))
      [] OTHER -> Whole(t)

ZeroDenominator(form, t) ==
    /\ form \in {1, 2}
    /\ LET i == CHOOSE i \in 1..Len(t) : t[i] = "/" IN DigitsToInt(After(t, i)) = 0

\* what the contract gives for a line: (None, line), or the value of the
\* leading token and every character after it
Contract(s) ==
    LET b == Body(s)
        form == LeadingForm(b)
    IN  IF form = 0 THEN [ok |-> FALSE, qty |-> Rat(0, 1), rest |-> s]
        ELSE LET k == Most(FormHeads(form, b))
                 t == SubSeq(b, 1, k)
             IN  IF ZeroDenominator(form, t) THEN [ok |-> FALSE, qty |-> Rat(0, 1), rest |-> s]
                 ELSE [ok |-> TRUE, qty |-> TokenValue(form, t),
                       rest |-> SubSeq(b, k + 1, Len(b))]

\* C7: the parser gives the value of the leading token (mixed number, fraction,
\* decimal or integer, in that order) and every character after it unmodified,
\* and (None, line) when no form matches or a denominator is zero.
C7_ParsesLeadingToken ==
    pc = "parsed" =>
        /\ parsed.ok = Contract(line).ok
        /\ parsed.rest = Contract(line).rest
        /\ parsed.ok => RatEq(parsed.qty, Contract(line).qty)

(***************************************************************************)
(* The nearest eighth of a value, as the contract words it.                *)
(***************************************************************************)
Abs(x) == IF x < 0 THEN -x ELSE x

\* the integer nearest to 8 * v, the even one of two equally near
NearestEighths(v) ==
    CHOOSE n \in 0..(8 * v[1] + 1) :
        \/ 2 * Abs(8 * v[1] - n * v[2]) < v[2]
        \/ 2 * Abs(8 * v[1] - n * v[2]) = v[2] /\ n % 2 = 0

RECURSIVE Gcd(_, _)
Gcd(a, b) == IF b = 0 THEN a ELSE Gcd(b, a % b)

\* r eighths in lowest terms: 1/8, 1/4, 3/8, 1/2, 5/8, 3/4, 7/8
EighthsText(r) == IntToStr(r \div Gcd(r, 8)) \o <<"/">> \o IntToStr(8 \div Gcd(r, 8))

FriendlyText(v) ==
    LET n == NearestEighths(v) IN
    IF n = 0 THEN <<"0">>
    ELSE IF n % 8 = 0 THEN IntToStr(n \div 8)
    ELSE IF n < 8 THEN EighthsText(n)
    ELSE IntToStr(n \div 8) \o <<" ">> \o EighthsText(n % 8)

\* C8: for every non-negative value the formatter gives "0", the whole number,
\* the fraction or "<whole> <fraction>" of the nearest number of eighths, a tie
\* going to the even number; 0.0 gives "0", 1.5 "1 1/2", 0.33 "3/8".
C8_NearestEighth ==
    pc = "formatted" =>
        /\ formatted = FriendlyText(value)
        /\ RatEq(value, Rat(0, 1)) => formatted = <<"0">>
        /\ RatEq(value, Rat(3, 2)) => formatted = <<"1", " ", "1", "/", "2">>
        /\ RatEq(value, Rat(33, 100)) => formatted = <<"3", "/", "8">>

\* the tie 3/16 is formatted as 1/4 and the tie 17/16 as 1
C8_Witness ==
    /\ pc = "formatted"
    /\ \/ value = Rat(3, 16) /\ formatted = <<"1", "/", "4">>
       \/ value = Rat(17, 16) /\ formatted = <<"1">>

\* C9: a line without a recognised quantity is returned unchanged whatever the
\* factor; otherwise the result is the friendly text of quantity * factor
\* followed by the parser's remainder.
C9_ScalesTheQuantityOnly ==
    pc = "scaled" =>
        /\ ~parsed.ok => scaled = line
        /\ parsed.ok => scaled = FriendlyText(RatMul(parsed.qty, factor)) \o parsed.rest
        /\ (line = Flour /\ factor = Rat(2, 1)) =>
               scaled = <<"3", " ", "c", "u", "p", "s", " ", "f", "l", "o", "u", "r">>

\* "1 1/2 cups flour" at factor 2 gives "3 cups flour"
C9_Witness ==
    /\ pc = "scaled" /\ line = Flour /\ factor = Rat(2, 1) /\ parsed.ok
    /\ scaled = <<"3", " ", "c", "u", "p", "s", " ", "f", "l", "o", "u", "r">>

\* the quantity is written the way the formatter writes it
WrittenFriendly == parsed.ok /\ FriendlyText(parsed.qty) = parsed.qty_str

\* C10 as stated: at factor 1 such a line comes back character for character.
C10_RoundTrip ==
    (pc = "scaled" /\ factor = Rat(1, 1) /\ WrittenFriendly) => scaled = line

\* s without the line feed that ends it
DropFinalLineFeed(s) ==
    IF s # <<>> /\ s[Len(s)] = "\n" THEN SubSeq(s, 1, Len(s) - 1) ELSE s

\* C10 as amended: at factor 1 such a line comes back without the white space
\* before the quantity and without a line feed that ends it, and otherwise
\* character for character.
C10_RoundTripFromTheQuantity ==
    (pc = "scaled" /\ factor = Rat(1, 1) /\ WrittenFriendly)
        => scaled = DropFinalLineFeed(Body(line))

\* a line with white space before its quantity comes back without it
C10_Witness ==
    /\ pc = "scaled" /\ factor = Rat(1, 1) /\ WrittenFriendly
    /\ line # <<>> /\ line[1] = " "
    /\ Len(parsed.qty_str) >= 3
    /\ scaled = Body(line)

(***************************************************************************)
(* The flattening of recipeInstructions, as the contract words it.         *)
(***************************************************************************)
\* the record returned for the located node
Returned == Scraped /\ outcome.kind = "record"

\* the entries of a JSON-LD value: the elements of an array; a single string
\* or object stands for the array of that one value
Entries(v) ==
    CASE v.t = "list" -> [i \in 1..Len(v.kids) |-> v.kids[i][2]]
      [] v.t \in {"str", "dict"} -> <<v>>
      [] OTHER -> <<>>

NonEmptyText(v) == v.t = "str" /\ v.s # <<>>

\* the text of a step: its text or, failing that, its name; a string itself
StepText(o) ==
    IF o.t = "str" THEN o.s
    ELSE IF o.t = "dict" /\ NonEmptyText(Get(o, "text")) THEN Get(o, "text").s
    ELSE IF o.t = "dict" /\ NonEmptyText(Get(o, "name")) THEN Get(o, "name").s
    ELSE <<>>

\* trimmed, and nothing when nothing is left
Trimmed(o) == IF Strip(StepText(o)) = <<>> THEN <<>> ELSE <<Strip(StepText(o))>>

Tagged(o, tag) == o.t = "dict" /\ Get(o, "@type") = JStr(tag)

RECURSIVE Concat(_)
Concat(ss) == IF ss = <<>> THEN <<>> ELSE Head(ss) \o Concat(Tail(ss))

\* what one entry of recipeInstructions contributes
Contribution(e) ==
    IF e.t = "str" \/ Tagged(e, HowToStep) THEN Trimmed(e)
    ELSE IF Tagged(e, HowToSection)
    THEN LET subs == Entries(Get(e, "itemListElement")) IN
         Concat([i \in 1..Len(subs) |-> Trimmed(subs[i])])
    ELSE <<>>

Flattened(v) == LET es == Entries(v) IN Concat([i \in 1..Len(es) |-> Contribution(es[i])])

\* C11: the instructions of a returned record are, in source order, the trimmed
\* non-empty texts of the entries of recipeInstructions: text (or name) of a
\* HowToStep, of each element of a HowToSection's itemListElement, and a plain
\* string itself.
C11_FlattenedInOrder ==
    Returned => outcome.record.instructions = Flattened(Get(outcome.node, "recipeInstructions"))

(***************************************************************************)
(* The servings of a recipeYield, as the contract words it.                *)
(***************************************************************************)
\* a non-empty array stands for its first element
YieldValue(v) == IF v.t = "list" /\ v.kids # <<>> THEN v.kids[1][2] ELSE v

\* the integer part of the first number written in s
FirstNumber(s) ==
    LET i == CHOOSE i \in 1..Len(s) : IsDigit(s[i]) /\ \A k \in 1..(i - 1) : ~IsDigit(s[k])
    IN  DigitsToInt(SubSeq(s, i, DigitRunEnd(s, i)))

ResolvedServings(v) ==
    LET y == YieldValue(v) IN
    IF y.t \in {"int", "float"} THEN JInt(Trunc(y.n, y.d))
    ELSE IF y.t = "str" /\ \E i \in 1..Len(y.s) : IsDigit(y.s[i]) THEN JInt(FirstNumber(y.s))
    ELSE JNull

\* C12: servings is the truncation of a numeric recipeYield (or of the first
\* element of a non-empty array), the truncated first number of a string, and
\* null in every other case.
C12_ServingsResolved ==
    Returned => outcome.record.servings = ResolvedServings(Get(outcome.node, "recipeYield"))

(***************************************************************************)
(* The depth budget of the locator.                                        *)
(***************************************************************************)
\* of the positions rp, those fewer than b descents below the root
WithinBudget(rp, b) == {p \in rp : Len(p) < b}

IsStringList(v) == v.t = "list" /\ \A i \in 1..Len(v.kids) : v.kids[i][2].t = "str"

\* C14: the title of a returned record is node.name when that is a string and
\* "No Title Found" otherwise; its ingredients are a sequence of strings, the
\* empty one when recipeIngredient is absent, null or not a sequence.
C14_TitleAndIngredientsTyped ==
    Returned =>
        LET name == Get(outcome.node, "name")
            given == Get(outcome.node, "recipeIngredient")
        IN  /\ outcome.record.title = (IF name.t = "str" THEN name ELSE NoTitleFound)
            /\ IsStringList(outcome.record.ingredients)
            /\ given.t # "list" => outcome.record.ingredients = JList(<<>>)

(***************************************************************************)
(* The store-changing requests served one at a time.                       *)
(***************************************************************************)
InitStore ==
    /\ pc = "serve"
    /\ recipes = <<>>
    /\ IdlePlan /\ IdleRequests
    /\ IdleLocate /\ IdleScrape /\ IdleParse /\ IdleFormat /\ IdleScale

Served == UNCHANGED <<pc, doc, found, page, outcome, line, parsed, value, formatted,
                      factor, scaled, reqs, base>>

\* add_recipe with a url whose scrape gives a record
AddRecipeRequest ==
    /\ pc = "serve" /\ serial < MaxAdds
    /\ \E url \in Urls : recipes' = AddRecipe(recipes, url, serial + 1)
    /\ serial' = serial + 1
    /\ UNCHANGED <<plan, assigned>> /\ Served

DeleteRecipeRequest ==
    /\ pc = "serve"
    /\ \E recipe_id \in RecipeIds : recipes' = DeleteRecipe(recipes, recipe_id)
    /\ UNCHANGED <<plan, assigned, serial>> /\ Served

ToggleFavoriteRequest ==
    /\ pc = "serve"
    /\ \E recipe_id \in RecipeIds : recipes' = ToggleFavorite(recipes, recipe_id)
    /\ UNCHANGED <<plan, assigned, serial>> /\ Served

UpdateOrderRequest ==
    /\ pc = "serve"
    /\ \E k \in 1..MaxOrder : \E new_order \in [1..k -> RecipeIds] :
          recipes' = UpdateOrder(recipes, new_order)
    /\ UNCHANGED <<plan, assigned, serial>> /\ Served

DedupeRecipesRequest ==
    /\ pc = "serve" /\ recipes # <<>>
    /\ recipes' = DedupeRecipes(recipes)
    /\ UNCHANGED <<plan, assigned, serial>> /\ Served

SetMealPlanDay ==
    /\ pc = "serve"
    /\ \E day \in Days, recipe_id \in RecipeIds :
          /\ HasId(recipes, recipe_id)
          /\ plan' = [plan EXCEPT ![day] = recipe_id]
          /\ assigned' = [assigned EXCEPT ![day] = SerialOf(recipes, recipe_id)]
    /\ UNCHANGED <<recipes, serial>> /\ Served

ClearMealPlanDay ==
    /\ pc = "serve"
    /\ \E day \in Days :
          /\ plan' = [plan EXCEPT ![day] = 0]
          /\ assigned' = [assigned EXCEPT ![day] = 0]
    /\ UNCHANGED <<recipes, serial>> /\ Served

\* meal_plan (POST): form gives each day a recipe id or "none"
MealPlanPost ==
    /\ pc = "serve"
    /\ \E form \in [Days -> {0} \cup RecipeIds] :
          /\ plan' = [d \in Days |-> PlanEntry(recipes, form[d])]
          /\ assigned' = [d \in Days |-> SerialOf(recipes, form[d])]
    /\ UNCHANGED <<recipes, serial>> /\ Served

NextStore ==
    \/ AddRecipeRequest \/ DeleteRecipeRequest \/ ToggleFavoriteRequest
    \/ UpdateOrderRequest \/ DedupeRecipesRequest
    \/ SetMealPlanDay \/ ClearMealPlanDay \/ MealPlanPost

SpecStore == InitStore /\ [][NextStore]_vars

\* C15: every non-null entry of the stored meal plan is the id of a recipe in
\* the store, and that recipe is the one that was assigned to the day.
C15_PlanNamesStoredRecipes ==
    pc = "serve" =>
        \A d \in Days :
            plan[d] # 0 =>
                \E i \in 1..Len(recipes) :
                    recipes[i].id = plan[d] /\ recipes[i].serial = assigned[d]

(***************************************************************************)
(* Two store-changing requests that overlap: each loads the whole list,    *)
(* changes its copy and saves the whole list.                              *)
(***************************************************************************)
\* the lists the store can hold when the two requests arrive
BaseStores ==
    {<<>>,
     <<[id |-> 1, url |-> "v", favorite |-> FALSE, serial |-> 0]>>,
     <<[id |-> 2, url |-> "v", favorite |-> TRUE, serial |-> 0],
       [id |-> 1, url |-> "v", favorite |-> FALSE, serial |-> 0]>>}

\* add_recipe, or toggle_favorite of a recipe
Arrivals ==
    {[op |-> "add", arg |-> 0, at |-> "load", local |-> <<>>]}
    \cup {[op |-> "toggle", arg |-> id, at |-> "load", local |-> <<>>] : id \in 1..2}

InitOverlap ==
    /\ pc = "overlap"
    /\ recipes \in BaseStores
    /\ base = recipes
    /\ reqs \in [Requests -> Arrivals]
    /\ IdlePlan
    /\ IdleLocate /\ IdleScrape /\ IdleParse /\ IdleFormat /\ IdleScale

Running == UNCHANGED <<pc, doc, found, page, outcome, line, parsed, value, formatted,
                       factor, scaled, plan, assigned, serial, base>>

\* recipes = load_recipes()
LoadRecipes(p) ==
    /\ pc = "overlap" /\ reqs[p].at = "load"
    /\ reqs' = [reqs EXCEPT ![p].local = recipes, ![p].at = "save"]
    /\ UNCHANGED recipes /\ Running

\* the change to the loaded list and save_recipes(recipes); toggle_favorite
\* saves nothing when it did not find the recipe
SaveRecipes(p) ==
    /\ pc = "overlap" /\ reqs[p].at = "save"
    /\ recipes' = IF reqs[p].op = "toggle" /\ ~HasId(reqs[p].local, reqs[p].arg)
                  THEN recipes
                  ELSE Modified(p, reqs[p], reqs[p].local)
    /\ reqs' = [reqs EXCEPT ![p].at = "done"]
    /\ Running

NextOverlap == \E p \in Requests : LoadRecipes(p) \/ SaveRecipes(p)

SpecOverlap == InitOverlap /\ [][NextOverlap]_vars

BothDone == pc = "overlap" /\ \A p \in Requests : reqs[p].at = "done"

\* the list after request p alone has run on rs
After1(p, rs) == Modified(p, reqs[p], rs)

\* C16: once two overlapping requests have both completed the stored list is
\* what the two give when run one after the other, in one order or the other,
\* and the stored ids are pairwise distinct.
C16_NoLostUpdate ==
    BothDone =>
        /\ recipes \in {After1(2, After1(1, base)), After1(1, After1(2, base))}
        /\ \A i, j \in 1..Len(recipes) : recipes[i].id = recipes[j].id => i = j

(***************************************************************************)
(* The whole program: any one of its functions applied to any one input,   *)
(* or the store serving requests.                                          *)
(***************************************************************************)
Init ==
    \/ InitLocate \/ InitScrape \/ InitParse \/ InitFormat \/ InitScale
    \/ InitStore \/ InitOverlap

Next ==
    \/ Locate \/ ScrapeRecipeData \/ Parse \/ Format \/ Scale
    \/ NextStore \/ NextOverlap

Spec == Init /\ [][Next]_vars

====
